---- MODULE Spec2Model ----
(***************************************************************************)
(* A model of jigsaw: the dependency graph builder and the topological     *)
(* sorter of jigsaw/computation_graph.py and the Composite of              *)
(* jigsaw/composite.py.                                                    *)
(*                                                                         *)
(* A Python dict is modelled by a function (its keys and values) together  *)
(* with the sequence of its keys in insertion order, which is the order    *)
(* .items() iterates in.  A tuple or list is a sequence.                   *)
(***************************************************************************)
EXTENDS Integers, Sequences, FiniteSets, TLC

VARIABLES
    \* topological_sort(dependency_graph)
    dependency_graph,   \* the argument: index -> set of indices it depends on
    key_order,          \* the argument's keys in insertion order
    sorting,            \* local list `sorting`
    resolved,           \* local list `resolved`
    passes,             \* number of iterations of the while loop so far
    sort_pc,            \* "while" | "after" (left by break) | "returned" | "raised"
    sort_result,        \* the returned tuple
    missing_indices,    \* CyclicDependencyError.indices
    \* build_dependency_graph(inputs_and_outputs)
    inputs_and_outputs, \* the argument: a sequence of [inputs, outputs]
    producers,          \* local dict `producers`: output name -> index
    consumers,          \* local defaultdict `consumers`: input name -> list of indices
    component_idx,      \* the unit the scan is at (units before it are scanned)
    build_pc,           \* "scan" | "returned" | "raised"
    build_result,       \* the returned dependency graph
    build_error,        \* OutputRedefinitionError: [indices, redefined_output]
    \* Composite(components, name=...)
    components,         \* the argument `components`, in the caller's order
    name_arg,           \* the argument `name` ("" stands for None)
    comp_pc,            \* "new" | "constructed" | "raised"
    self,               \* the Composite: [name, components, inputs, outputs, ...]
    comp_error,         \* the composite-scoped error raised by the constructor
    \* Composite.forward(inputs)
    heap,               \* the dict objects: reference -> mapping name -> value
    fwd_inputs,         \* reference of the caller's mapping `inputs`
    cumulative_inputs,  \* reference held by local `cumulative_inputs`
    fwd_outputs,        \* reference held by local `outputs`
    piece_idx,          \* number of components the for loop has handled
    fwd_pc,             \* "idle" | "loop" | "returned" | "failed"
    caller_before,      \* the caller's mapping as it was when forward was called
    invoked,            \* log: per invocation [piece, received, returned]
    \* Composite.extract(component_type)
    component_type,     \* the argument
    extract_result      \* the returned list

sortVars == <<dependency_graph, key_order, sorting, resolved, passes, sort_pc,
              sort_result, missing_indices>>

buildVars == <<inputs_and_outputs, producers, consumers, component_idx, build_pc,
               build_result, build_error>>

compVars == <<components, name_arg, comp_pc, self, comp_error>>

fwdVars == <<heap, fwd_inputs, cumulative_inputs, fwd_outputs, piece_idx, fwd_pc,
             caller_before, invoked>>

extractVars == <<component_type, extract_result>>

vars == <<sortVars, buildVars, compVars, fwdVars, extractVars>>

----------------------------------------------------------------------------
(* Bounds of the model *)

\* largest number of keys of a graph given to topological_sort
MaxNodes == 3
\* largest number of dependency edges of a graph given to topological_sort
MaxEdges == 3
\* largest number of units given to build_dependency_graph
MaxUnits == 3
\* largest number of names in the inputs and outputs of all the units together
MaxNames == 4
\* largest number of components given to the Composite constructor
MaxComponents == 3
\* largest number of components of a Composite that extract is called on
MaxExtractComponents == 2

----------------------------------------------------------------------------
(* Sequences and sets *)

Range(s) == {s[k] : k \in 1..Len(s)}

Indices(n) == 0..(n - 1)

\* all orders in which the elements of S can be listed
Perms(S) == {p \in [1..Cardinality(S) -> S] : Range(p) = S}

IsAscending(s) == \A j, k \in 1..Len(s) : j < k => s[j] < s[k]

\* the position of x in s (x occurs in s)
PosIn(s, x) == CHOOSE k \in 1..Len(s) : s[k] = x

----------------------------------------------------------------------------
(* computation_graph.topological_sort *)

\* `for i, deps in dependency_graph.items()`: the keys in the dict's order
ItemsOrderReversed(order) == [k \in 1..Len(order) |-> order[Len(order) + 1 - k]]
ItemsOrder(order) == order

\* `not resolved[i] and len(deps.difference(sorting)) == 0`
EligibleIgnoringSelf(graph, i, s, r) == ~r[i] /\ ((graph[i] \ {i}) \ Range(s)) = {}
EligibleUnresolvedOnly(graph, i, s, r) == ~r[i]
EligibleResolvedToo(graph, i, s, r) == (graph[i] \ Range(s)) = {}
Eligible(graph, i, s, r) == ~r[i] /\ (graph[i] \ Range(s)) = {}

\* the for loop of one while iteration, from position k of the items on
RECURSIVE Sweep(_, _, _, _, _)
Sweep(graph, items, k, s, r) ==
    IF k > Len(items) THEN [sorting |-> s, resolved |-> r]
    ELSE LET i == items[k]
         IN  IF Eligible(graph, i, s, r)
             THEN Sweep(graph, items, k + 1, Append(s, i), [r EXCEPT ![i] = TRUE])
             ELSE Sweep(graph, items, k + 1, s, r)

\* `set(dependency_graph.keys()).difference(sorting)`
MissingIndices(graph, s) == DOMAIN graph \ Range(s)

\* the while loop has ended: its condition is false, or break left it
LoopEnded ==
    \/ sort_pc = "after"
    \/ sort_pc = "while" /\ ~(Len(sorting) < Cardinality(DOMAIN dependency_graph))

\* one iteration of the while loop
Pass ==
    /\ sort_pc = "while"
    /\ Len(sorting) < Cardinality(DOMAIN dependency_graph)
    /\ LET initial_length == Len(sorting)
           swept == Sweep(dependency_graph, ItemsOrder(key_order), 1, sorting, resolved)
           any_added == Len(swept.sorting) > initial_length
       IN  /\ sorting' = swept.sorting
           /\ resolved' = swept.resolved
           /\ sort_pc' = IF ~any_added THEN "after" ELSE "while"
    /\ passes' = passes + 1
    /\ UNCHANGED <<dependency_graph, key_order, sort_result, missing_indices>>
    /\ UNCHANGED <<buildVars, compVars, fwdVars, extractVars>>

\* `raise CyclicDependencyError(missing_indices)`
RaiseCyclic ==
    /\ LoopEnded
    /\ Len(sorting) < Cardinality(DOMAIN dependency_graph)
    /\ missing_indices' = MissingIndices(dependency_graph, sorting)
    /\ sort_pc' = "raised"
    /\ UNCHANGED <<dependency_graph, key_order, sorting, resolved, passes, sort_result>>
    /\ UNCHANGED <<buildVars, compVars, fwdVars, extractVars>>

\* `return tuple(sorting)`
ReturnSorting ==
    /\ LoopEnded
    /\ ~(Len(sorting) < Cardinality(DOMAIN dependency_graph))
    /\ sort_result' = sorting
    /\ sort_pc' = "returned"
    /\ UNCHANGED <<dependency_graph, key_order, sorting, resolved, passes, missing_indices>>
    /\ UNCHANGED <<buildVars, compVars, fwdVars, extractVars>>

\* the function as a whole: the while loop run to its end, then the result
RECURSIVE SortLoop(_, _, _, _)
SortLoop(graph, items, s, r) ==
    IF ~(Len(s) < Cardinality(DOMAIN graph)) THEN [sorting |-> s, resolved |-> r]
    ELSE LET swept == Sweep(graph, items, 1, s, r)
         IN  IF Len(swept.sorting) > Len(s)
             THEN SortLoop(graph, items, swept.sorting, swept.resolved)
             ELSE swept

topological_sort(graph, order) ==
    LET end == SortLoop(graph, ItemsOrder(order), <<>>, [i \in DOMAIN graph |-> FALSE])
    IN  IF Len(end.sorting) < Cardinality(DOMAIN graph)
        THEN [raised |-> TRUE, indices |-> MissingIndices(graph, end.sorting), result |-> <<>>]
        ELSE [raised |-> FALSE, indices |-> {}, result |-> end.sorting]

\* the keys 0..n-1 in the order build_dependency_graph inserts them into the
\* dict it returns (lines 51-54), which is the order a dict literal like
\* those of the tests has too
GraphKeyOrder(n) == [k \in 1..n |-> k - 1]

\* the graphs of test_topological_sort_short_cycle and
\* test_topological_sort_long_cycle: a ring of 2 and a ring of 7 keys
ShortCycle == (0 :> {1}) @@ (1 :> {0})

LongCycle == [i \in 0..6 |-> {(i + 6) % 7}]

\* the graphs with keys 0..n-1 whose dependency sets hold only keys
GraphOf(n, edges) == [i \in Indices(n) |-> {j \in Indices(n) : <<i, j>> \in edges}]

Graphs ==
    UNION {{GraphOf(n, edges) :
              edges \in {e \in SUBSET (Indices(n) \X Indices(n)) : Cardinality(e) <= MaxEdges}} :
           n \in 0..MaxNodes}

SortInit ==
    /\ dependency_graph \in Graphs \cup {LongCycle}
    /\ key_order \in IF dependency_graph = LongCycle
                     THEN {GraphKeyOrder(7)}
                     ELSE Perms(DOMAIN dependency_graph)
    /\ sorting = <<>>
    /\ resolved = [i \in DOMAIN dependency_graph |-> FALSE]
    /\ passes = 0
    /\ sort_pc = "while"
    /\ sort_result = <<>>
    /\ missing_indices = {}

SortNext == Pass \/ RaiseCyclic \/ ReturnSorting

\* no call of build_dependency_graph is under way
BuildIdle ==
    /\ inputs_and_outputs = <<>>
    /\ producers = <<>>
    /\ consumers = <<>>
    /\ component_idx = 0
    /\ build_pc = "idle"
    /\ build_result = <<>>
    /\ build_error = [indices |-> {}, redefined_output |-> ""]

\* no Composite exists and none is being constructed
CompositeIdle ==
    /\ components = <<>>
    /\ name_arg = ""
    /\ comp_pc = "idle"
    /\ self = <<>>
    /\ comp_error = <<>>

\* no call of Composite.forward is under way
ForwardIdle ==
    /\ heap = <<>>
    /\ fwd_inputs = 0
    /\ cumulative_inputs = 0
    /\ fwd_outputs = 0
    /\ piece_idx = 0
    /\ fwd_pc = "idle"
    /\ caller_before = <<>>
    /\ invoked = <<>>

\* no call of Composite.extract is under way
ExtractIdle ==
    /\ component_type = ""
    /\ extract_result = <<>>

InitSort == SortInit /\ BuildIdle /\ CompositeIdle /\ ForwardIdle /\ ExtractIdle

SpecSort == InitSort /\ [][SortNext]_vars

----------------------------------------------------------------------------
(* Graph notions the claims about topological_sort are stated with *)

RECURSIVE ReachFrom(_, _, _)
ReachFrom(graph, S, k) ==
    IF k = 0 THEN S
    ELSE ReachFrom(graph, S \cup UNION {graph[x] : x \in S}, k - 1)

\* the keys i depends on, directly or transitively
Descendants(graph, i) == ReachFrom(graph, graph[i], Cardinality(DOMAIN graph))

OnCycle(graph, i) == i \in Descendants(graph, i)

HasCycle(graph) == \E i \in DOMAIN graph : OnCycle(graph, i)

\* the keys on a cycle or depending on a key on a cycle
CycleBlocked(graph) ==
    {i \in DOMAIN graph :
        OnCycle(graph, i) \/ \E j \in Descendants(graph, i) : OnCycle(graph, j)}

SortEnded == sort_pc \in {"returned", "raised"}

\* C1: for an acyclic graph with keys 0..n-1 topological_sort returns a tuple
\* holding each key exactly once, every dependency of a key before the key.
C1_SortIsTopologicalOrder ==
    (SortEnded /\ ~HasCycle(dependency_graph)) =>
        /\ sort_pc = "returned"
        /\ Len(sort_result) = Cardinality(DOMAIN dependency_graph)
        /\ Range(sort_result) = DOMAIN dependency_graph
        /\ \A i \in DOMAIN dependency_graph : \A j \in dependency_graph[i] :
              PosIn(sort_result, j) < PosIn(sort_result, i)

C1_Witness ==
    /\ sort_pc = "returned"
    /\ Cardinality(DOMAIN dependency_graph) = 3
    /\ \E i \in DOMAIN dependency_graph : Cardinality(dependency_graph[i]) = 2
    /\ ~IsAscending(sort_result)

\* C3: topological_sort raises CyclicDependencyError exactly when the graph
\* has a cycle (a self-loop counts), returning no tuple, and the error's
\* indices are exactly the keys on a cycle or depending on one.
C3_RaisesExactlyOnCycle ==
    SortEnded =>
        /\ (sort_pc = "raised") <=> HasCycle(dependency_graph)
        /\ sort_pc = "raised" =>
              /\ sort_result = <<>>
              /\ missing_indices = CycleBlocked(dependency_graph)
        /\ dependency_graph = ShortCycle => sort_pc = "raised" /\ missing_indices = {0, 1}
        /\ dependency_graph = LongCycle => sort_pc = "raised" /\ missing_indices = 0..6

C3_Witness ==
    /\ sort_pc = "raised"
    /\ \E i \in missing_indices : ~OnCycle(dependency_graph, i)
    /\ \E i \in missing_indices : i \in dependency_graph[i]
    /\ missing_indices # DOMAIN dependency_graph

\* the indices the step appended to `sorting`
AppendedInStep == SubSeq(sorting', Len(sorting) + 1, Len(sorting'))

ExampleGraph == (0 :> {1, 2}) @@ (1 :> {2}) @@ (2 :> {})

\* C6 as stated: the indices appended during one pass are in ascending index
\* order whatever order the keys were inserted in, so the result depends on
\* the keys and dependency sets only, and {0: {1,2}, 1: {2}, 2: {}} gives
\* (2, 1, 0).
C6_AscendingWhateverInsertionOrder ==
    /\ [][IsAscending(AppendedInStep)]_vars
    /\ [](sort_pc = "returned" =>
            sort_result = topological_sort(dependency_graph,
                            GraphKeyOrder(Cardinality(DOMAIN dependency_graph))).result)
    /\ [](sort_pc = "returned" /\ dependency_graph = ExampleGraph =>
            sort_result = <<2, 1, 0>>)

\* C6 amended: the indices appended during one pass are appended in the order
\* the keys were inserted into the mapping, which is ascending index order
\* when the keys were inserted in ascending order; {0: {1,2}, 1: {2}, 2: {}}
\* gives (2, 1, 0).
C6_AppendedInInsertionOrder ==
    /\ [][LET a == AppendedInStep
          IN  /\ \A j, k \in 1..Len(a) :
                    j < k => PosIn(key_order, a[j]) < PosIn(key_order, a[k])
              /\ IsAscending(key_order) => IsAscending(a)]_vars
    /\ [](sort_pc = "returned" /\ dependency_graph = ExampleGraph =>
            sort_result = <<2, 1, 0>>)

C6_Witness ==
    /\ passes = 1
    /\ Len(sorting) >= 2
    /\ IsAscending(key_order)
    /\ \E i \in DOMAIN dependency_graph : dependency_graph[i] # {}

----------------------------------------------------------------------------
(* computation_graph.build_dependency_graph *)

\* the names units declare
Names == {"a", "b"}

\* dict.setdefault(key, value)
SetDefaultOverwrite(d, key, value) ==
    [k \in DOMAIN d \cup {key} |-> IF k = key THEN value ELSE d[k]]
SetDefault(d, key, value) ==
    [k \in DOMAIN d \cup {key} |-> IF k \in DOMAIN d THEN d[k] ELSE value]

\* `for output_name in outputs`, from position k on: the producers, and the
\* error if one is raised
RECURSIVE ScanOutputs(_, _, _, _)
ScanOutputs(prod, outputs, k, idx) ==
    IF k > Len(outputs)
    THEN [producers |-> prod, raised |-> FALSE, indices |-> {}, redefined_output |-> ""]
    ELSE LET output_name == outputs[k]
             after == SetDefault(prod, output_name, idx)
             existing_idx == after[output_name]
         IN  IF existing_idx # idx
             THEN [producers |-> after, raised |-> TRUE,
                   indices |-> {existing_idx, idx}, redefined_output |-> output_name]
             ELSE ScanOutputs(after, outputs, k + 1, idx)

\* `for input_name in inputs: consumers[input_name].append(component_idx)`
RECURSIVE ScanInputs(_, _, _, _)
ScanInputs(cons, inputs, k, idx) ==
    IF k > Len(inputs) THEN cons
    ELSE LET input_name == inputs[k]
             before == IF input_name \in DOMAIN cons THEN cons[input_name] ELSE <<>>
         IN  ScanInputs([n \in DOMAIN cons \cup {input_name} |->
                            IF n = input_name THEN Append(before, idx) ELSE cons[n]],
                        inputs, k + 1, idx)

\* `producers.get(input_name)` followed by `if producer is not None`
HasProducerTruthy(prod, input_name) == input_name \in DOMAIN prod /\ prod[input_name] # 0
HasProducer(prod, input_name) == input_name \in DOMAIN prod

\* lines 51-60: every index mapped to the producers of the names it consumes
MakeGraph(n, prod, cons) ==
    [idx \in Indices(n) |->
        {prod[input_name] :
            input_name \in {nm \in DOMAIN cons :
                               HasProducer(prod, nm) /\ idx \in Range(cons[nm])}}]

\* one iteration of `for component_idx, (inputs, outputs) in enumerate(...)`
ScanUnit ==
    /\ build_pc = "scan"
    /\ component_idx < Len(inputs_and_outputs)
    /\ LET io == inputs_and_outputs[component_idx + 1]
           scanned == ScanOutputs(producers, io.outputs, 1, component_idx)
       IN  /\ producers' = scanned.producers
           /\ IF scanned.raised
              THEN /\ build_error' = [indices |-> scanned.indices,
                                      redefined_output |-> scanned.redefined_output]
                   /\ build_pc' = "raised"
                   /\ UNCHANGED <<consumers, component_idx>>
              ELSE /\ consumers' = ScanInputs(consumers, io.inputs, 1, component_idx)
                   /\ component_idx' = component_idx + 1
                   /\ UNCHANGED <<build_error, build_pc>>
    /\ UNCHANGED <<inputs_and_outputs, build_result>>
    /\ UNCHANGED <<sortVars, compVars, fwdVars, extractVars>>

\* lines 51-60, once every unit is scanned
ReturnGraph ==
    /\ build_pc = "scan"
    /\ component_idx = Len(inputs_and_outputs)
    /\ build_result' = MakeGraph(Len(inputs_and_outputs), producers, consumers)
    /\ build_pc' = "returned"
    /\ UNCHANGED <<inputs_and_outputs, producers, consumers, component_idx, build_error>>
    /\ UNCHANGED <<sortVars, compVars, fwdVars, extractVars>>

\* the function as a whole
RECURSIVE ScanAll(_, _, _, _)
ScanAll(ios, idx, prod, cons) ==
    IF idx = Len(ios)
    THEN [raised |-> FALSE, indices |-> {}, redefined_output |-> "",
          graph |-> MakeGraph(Len(ios), prod, cons)]
    ELSE LET scanned == ScanOutputs(prod, ios[idx + 1].outputs, 1, idx)
         IN  IF scanned.raised
             THEN [raised |-> TRUE, indices |-> scanned.indices,
                   redefined_output |-> scanned.redefined_output, graph |-> <<>>]
             ELSE ScanAll(ios, idx + 1, scanned.producers,
                          ScanInputs(cons, ios[idx + 1].inputs, 1, idx))

build_dependency_graph(ios) == ScanAll(ios, 0, <<>>, <<>>)

\* the tuples of exactly len names
NameTuples(len) == [1..len -> Names]

\* the IO specs holding exactly size names
IOSpecsOfSize(size) ==
    UNION {{[inputs |-> i, outputs |-> o] : i \in NameTuples(n), o \in NameTuples(size - n)} :
           n \in 0..size}

\* the sequences of n IO specs holding at most `budget` names together
RECURSIVE IOSpecSeqs(_, _)
IOSpecSeqs(n, budget) ==
    IF n = 0 THEN {<<>>}
    ELSE UNION {LET rests == IOSpecSeqs(n - 1, budget - size)
                IN  {<<io>> \o rest : io \in IOSpecsOfSize(size), rest \in rests} :
                size \in 0..budget}

BuildInit ==
    /\ inputs_and_outputs \in UNION {IOSpecSeqs(n, MaxNames) : n \in 0..MaxUnits}
    /\ producers = <<>>
    /\ consumers = <<>>
    /\ component_idx = 0
    /\ build_pc = "scan"
    /\ build_result = <<>>
    /\ build_error = [indices |-> {}, redefined_output |-> ""]

\* no call of topological_sort is under way
SortIdle ==
    /\ dependency_graph = <<>>
    /\ key_order = <<>>
    /\ sorting = <<>>
    /\ resolved = <<>>
    /\ passes = 0
    /\ sort_pc = "idle"
    /\ sort_result = <<>>
    /\ missing_indices = {}

BuildNext == ScanUnit \/ ReturnGraph

InitBuild == BuildInit /\ SortIdle /\ CompositeIdle /\ ForwardIdle /\ ExtractIdle

SpecBuild == InitBuild /\ [][BuildNext]_vars

----------------------------------------------------------------------------
(* Notions the claims about build_dependency_graph are stated with *)

UnitIndices == Indices(Len(inputs_and_outputs))

InputNames(idx) == Range(inputs_and_outputs[idx + 1].inputs)

OutputNames(idx) == Range(inputs_and_outputs[idx + 1].outputs)

\* some output name is declared by two distinct units
SharedOutput == \E i, j \in UnitIndices : i # j /\ OutputNames(i) \cap OutputNames(j) # {}

\* the name is declared as an output by a unit before idx
DeclaredBefore(name, idx) == \E e \in UnitIndices : e < idx /\ name \in OutputNames(e)

Least(S) == CHOOSE x \in S : \A y \in S : x <= y

BuildEnded == build_pc \in {"returned", "raised"}

\* C2: when no output name is declared by two distinct units,
\* build_dependency_graph returns a mapping with the keys 0..n-1 in which
\* graph[i] is the set of the units j that declare some input name of unit i
\* as an output; an input name nobody produces adds no edge and no error.
C2_GraphIsProducersOfInputs ==
    (BuildEnded /\ ~SharedOutput) =>
        /\ build_pc = "returned"
        /\ DOMAIN build_result = UnitIndices
        /\ \A i \in UnitIndices :
              build_result[i] = {j \in UnitIndices : InputNames(i) \cap OutputNames(j) # {}}

C2_Witness ==
    /\ build_pc = "returned"
    /\ \E i \in UnitIndices :
          /\ \E j \in build_result[i] : j # i
          /\ \E name \in InputNames(i) : \A j \in UnitIndices : name \notin OutputNames(j)
    /\ \E k \in UnitIndices : build_result[k] = {}

\* C4: build_dependency_graph raises OutputRedefinitionError at the first
\* unit, in index order, that declares an output name an earlier unit
\* declared, scanning no later unit and returning no graph; the error carries
\* that name and the indices {first producer of the name, the unit scanned};
\* and it raises only if two distinct units declare the same output name.
C4_RaisesAtFirstRedefinition ==
    BuildEnded =>
        /\ (build_pc = "raised") <=> SharedOutput
        /\ build_pc = "raised" =>
              LET u == Least({i \in UnitIndices :
                                \E name \in OutputNames(i) : DeclaredBefore(name, i)})
                  outputs == inputs_and_outputs[u + 1].outputs
                  name == outputs[Least({k \in 1..Len(outputs) :
                                           DeclaredBefore(outputs[k], u)})]
              IN  /\ component_idx = u
                  /\ build_error.redefined_output = name
                  /\ build_error.indices =
                        {Least({e \in UnitIndices : name \in OutputNames(e)}), u}
                  /\ build_result = <<>>
                  /\ \A n \in DOMAIN producers : producers[n] <= u
                  /\ \A n \in DOMAIN consumers : \A c \in Range(consumers[n]) : c < u

C4_Witness ==
    /\ build_pc = "raised"
    /\ component_idx + 1 < Len(inputs_and_outputs)
    /\ \E e \in build_error.indices : InputNames(e) # InputNames(component_idx)
    /\ build_error.redefined_output # inputs_and_outputs[component_idx + 1].outputs[1]

----------------------------------------------------------------------------
(* jigsaw/piece.py: the pieces a Composite is made of *)

\* the classes isinstance() accepts an object of class cls for
Ancestors(cls) ==
    CASE cls = "Module" -> {"Module", "Piece"}
      [] cls = "LossFunction" -> {"LossFunction", "Piece"}
      [] cls = "Composite" -> {"Composite", "Piece"}

IsInstance(piece, type) == type \in Ancestors(piece.cls)

\* a piece that is no Composite; id stands for the object's address
Leaf(cls, name, id, ins, outs) ==
    [cls |-> cls, name |-> name, id |-> id, inputs |-> ins, outputs |-> outs,
     components |-> <<>>]

ab == Leaf("Module", "ab", "1", <<"a">>, <<"b">>)
bc == Leaf("LossFunction", "bc", "2", <<"b">>, <<"c">>)
cd == Leaf("Module", "cd", "3", <<"c">>, <<"d">>)
cb == Leaf("LossFunction", "cb", "4", <<"c">>, <<"b">>)
aa == Leaf("Module", "aa", "5", <<"a">>, <<"a">>)

Leaves == {ab, bc, cd, cb, aa}

\* str(piece): no class of piece.py or composite.py defines __str__ or
\* __repr__, so it is object's, which shows the class and the address
Str(piece) == "<" \o piece.cls \o " object at 0x" \o piece.id \o ">"

----------------------------------------------------------------------------
(* composite.Composite.__init__ *)

\* `name or self.__class__.__qualname__`
CompositeName(name) == IF name = "" THEN "Composite" ELSE name

\* `[(c.inputs(), c.outputs()) for c in components]`
ComponentIOs(comps) ==
    [k \in 1..Len(comps) |-> [inputs |-> comps[k].inputs, outputs |-> comps[k].outputs]]

\* `[components[i] for i in sorted_indices]`
StoredComponentsUnsorted(comps, sorted_indices) == comps
StoredComponents(comps, sorted_indices) ==
    [k \in 1..Len(sorted_indices) |-> comps[sorted_indices[k] + 1]]

\* `[i for piece in self._components for i in piece.inputs()]`
RECURSIVE FlattenInputsExternal(_, _)
FlattenInputsExternal(comps, k) ==
    IF k > Len(comps) THEN <<>>
    ELSE LET External(n) == \A j \in 1..Len(comps) : n \notin Range(comps[j].outputs)
         IN  SelectSeq(comps[k].inputs, External) \o FlattenInputsExternal(comps, k + 1)
RECURSIVE FlattenInputs(_, _)
FlattenInputs(comps, k) ==
    IF k > Len(comps) THEN <<>> ELSE comps[k].inputs \o FlattenInputs(comps, k + 1)

\* `[o for piece in self._components for o in piece.outputs()]`
RECURSIVE FlattenOutputs(_, _)
FlattenOutputs(comps, k) ==
    IF k > Len(comps) THEN <<>> ELSE comps[k].outputs \o FlattenOutputs(comps, k + 1)

\* the address of a new Composite: one per stored component sequence
RECURSIVE JoinIds(_, _)
JoinIds(comps, k) ==
    IF k > Len(comps) THEN "" ELSE comps[k].id \o JoinIds(comps, k + 1)

\* the constructor: the Composite, or the kind of error and what the
\* underlying error carries
CompositeInit(comps, name) ==
    LET built == build_dependency_graph(ComponentIOs(comps))
        sorted == topological_sort(built.graph, GraphKeyOrder(Len(comps)))
        stored == StoredComponents(comps, sorted.result)
    IN  IF built.raised
        THEN [raised |-> "OutputRedefinitionError", indices |-> built.indices,
              redefined_output |-> built.redefined_output, self |-> <<>>]
        ELSE IF sorted.raised
        THEN [raised |-> "CyclicDependencyError", indices |-> sorted.indices,
              redefined_output |-> "", self |-> <<>>]
        ELSE [raised |-> "", indices |-> {}, redefined_output |-> "",
              self |-> [cls |-> "Composite", name |-> CompositeName(name),
                        id |-> "c" \o JoinIds(stored, 1) \o "e",
                        inputs |-> FlattenInputs(stored, 1),
                        outputs |-> FlattenOutputs(stored, 1),
                        components |-> stored]]

\* `names=[str(components[idx]) for idx in error.indices]`, the set
\* error.indices being iterated in the order `order`
ErrorNames(comps, order) == [k \in 1..Len(order) |-> Str(comps[order[k] + 1])]

\* Composite(components, name=name_arg)
Construct ==
    /\ comp_pc = "new"
    /\ LET made == CompositeInit(components, name_arg)
       IN  IF made.raised # ""
           THEN /\ \E order \in Perms(made.indices) :
                     comp_error' = [kind |-> made.raised,
                                    composite_name |-> CompositeName(name_arg),
                                    names |-> ErrorNames(components, order),
                                    indices |-> order,
                                    redefined_output |-> made.redefined_output]
                /\ comp_pc' = "raised"
                /\ UNCHANGED self
           ELSE /\ self' = made.self
                /\ comp_pc' = "constructed"
                /\ UNCHANGED comp_error
    /\ UNCHANGED <<components, name_arg>>
    /\ UNCHANGED <<sortVars, buildVars, fwdVars, extractVars>>

----------------------------------------------------------------------------
(* composite.Composite.forward *)

\* dict.update(other)
UpdateKeepingOld(m, other) ==
    [k \in DOMAIN m \cup DOMAIN other |-> IF k \in DOMAIN m THEN m[k] ELSE other[k]]
Update(m, other) ==
    [k \in DOMAIN m \cup DOMAIN other |-> IF k \in DOMAIN other THEN other[k] ELSE m[k]]

\* `dict(inputs)`: a new dict object with the entries of the one at ref
DictAlias(h, ref) == [heap |-> h, ref |-> ref]
DictCopy(h, ref) == [heap |-> Append(h, h[ref]), ref |-> Len(h) + 1]

\* `dict()`: a new, empty dict object
DictNew(h) == [heap |-> Append(h, <<>>), ref |-> Len(h) + 1]

\* a leaf's compute: it looks its declared inputs up in the mapping (a
\* KeyError when one is missing) and returns its declared outputs, each a
\* value made of its name, the output name and the input values
Compute(piece, m) ==
    IF \E k \in 1..Len(piece.inputs) : piece.inputs[k] \notin DOMAIN m
    THEN [ok |-> FALSE, outputs |-> <<>>]
    ELSE [ok |-> TRUE,
          outputs |-> [o \in Range(piece.outputs) |->
                         <<piece.name, o,
                           [k \in 1..Len(piece.inputs) |-> m[piece.inputs[k]]]>>]]

\* `piece(cumulative_inputs)`: a leaf computes, a Composite runs forward
RECURSIVE Call(_, _)
\* forward of a nested Composite: the loop from component k on
RECURSIVE RunComponents(_, _, _, _)
RunComponents(comps, k, cumulative, outs) ==
    IF k > Len(comps) THEN [ok |-> TRUE, outputs |-> outs]
    ELSE LET piece_outputs == Call(comps[k], cumulative)
         IN  IF ~piece_outputs.ok THEN piece_outputs
             ELSE RunComponents(comps, k + 1, Update(cumulative, piece_outputs.outputs),
                                Update(outs, piece_outputs.outputs))

Call(piece, m) ==
    IF piece.cls = "Composite"
    THEN RunComponents(piece.components, 1, m, <<>>)
    ELSE Compute(piece, m)

\* the names a caller supplies, and the value it supplies for a name
CallerNames == {"a", "b"}

CallerValue(name) == <<"caller", name, <<>>>>

CallerMappings == {[k \in keys |-> CallerValue(k)] : keys \in SUBSET CallerNames}

\* self.forward(inputs): lines 100-101
ForwardCall ==
    /\ comp_pc = "constructed"
    /\ fwd_pc = "idle"
    /\ \E m \in CallerMappings :
          LET copied == DictCopy(<<m>>, 1)
              new == DictNew(copied.heap)
          IN  /\ heap' = new.heap
              /\ fwd_inputs' = 1
              /\ cumulative_inputs' = copied.ref
              /\ fwd_outputs' = new.ref
              /\ caller_before' = m
    /\ piece_idx' = 0
    /\ fwd_pc' = "loop"
    /\ invoked' = <<>>
    /\ UNCHANGED <<sortVars, buildVars, compVars, extractVars>>

\* one iteration of `for piece in self._components`: lines 102-105
ForwardStep ==
    /\ fwd_pc = "loop"
    /\ piece_idx < Len(self.components)
    /\ LET piece == self.components[piece_idx + 1]
           received == heap[cumulative_inputs]
           piece_outputs == Call(piece, received)
       IN  /\ invoked' = Append(invoked, [piece |-> piece_idx, received |-> received,
                                          ok |-> piece_outputs.ok,
                                          returned |-> piece_outputs.outputs])
           /\ IF piece_outputs.ok
              THEN /\ heap' = [r \in 1..Len(heap) |->
                                 IF r \in {cumulative_inputs, fwd_outputs}
                                 THEN Update(heap[r], piece_outputs.outputs)
                                 ELSE heap[r]]
                   /\ piece_idx' = piece_idx + 1
                   /\ UNCHANGED fwd_pc
              ELSE /\ fwd_pc' = "failed"
                   /\ UNCHANGED <<heap, piece_idx>>
    /\ UNCHANGED <<fwd_inputs, cumulative_inputs, fwd_outputs, caller_before>>
    /\ UNCHANGED <<sortVars, buildVars, compVars, extractVars>>

\* `return outputs`: line 106
ForwardReturn ==
    /\ fwd_pc = "loop"
    /\ piece_idx = Len(self.components)
    /\ fwd_pc' = "returned"
    /\ UNCHANGED <<heap, fwd_inputs, cumulative_inputs, fwd_outputs, piece_idx,
                   caller_before, invoked>>
    /\ UNCHANGED <<sortVars, buildVars, compVars, extractVars>>

\* the sequences of 1..maxlen elements of S
SeqsUpTo(S, maxlen) == UNION {[1..n -> S] : n \in 0..maxlen}

\* the Composites that construct from one or two of ab, bc, cd
NestedComposites ==
    {made.self : made \in {m \in {CompositeInit(seq, "inner") :
                                     seq \in [1..1 -> {ab, bc, cd}] \cup [1..2 -> {ab, bc, cd}]} :
                              m.raised = ""}}

\* the constructor is about to be called
CompositeNew ==
    /\ components \in SeqsUpTo(Leaves \cup NestedComposites, MaxComponents)
    /\ name_arg \in {"", "model"}
    /\ comp_pc = "new"
    /\ self = <<>>
    /\ comp_error = <<>>

CompositeNext == Construct \/ ForwardCall \/ ForwardStep \/ ForwardReturn

InitComposite == CompositeNew /\ SortIdle /\ BuildIdle /\ ForwardIdle /\ ExtractIdle

SpecComposite == InitComposite /\ [][CompositeNext]_vars

----------------------------------------------------------------------------
(* composite.Composite.extract *)

RECURSIVE ExtractFrom(_, _, _)

\* `component.extract(component_type)` of the elif branch
ExtractNestedNothing(component, type) == <<>>
ExtractNested(component, type) == ExtractFrom(component.components, 1, type)

\* the for loop over self._components from position k on
ExtractFrom(comps, k, type) ==
    IF k > Len(comps) THEN <<>>
    ELSE LET component == comps[k]
             matching == IF IsInstance(component, type) THEN <<component>>
                         ELSE IF IsInstance(component, "Composite")
                              THEN ExtractNested(component, type)
                              ELSE <<>>
         IN  matching \o ExtractFrom(comps, k + 1, type)

\* the types extract is called with
Types == {"Piece", "Module", "LossFunction", "Composite"}

\* self.extract(component_type)
Extract ==
    /\ comp_pc = "constructed"
    /\ component_type = ""
    /\ \E type \in Types :
          /\ component_type' = type
          /\ extract_result' = ExtractFrom(self.components, 1, type)
    /\ UNCHANGED <<sortVars, buildVars, compVars, fwdVars>>

\* the Composites that construct from one Composite of NestedComposites
TwiceNestedComposites ==
    {made.self : made \in {m \in {CompositeInit(<<inner>>, "outer") :
                                     inner \in NestedComposites} :
                              m.raised = ""}}

ExtractNew ==
    /\ components \in SeqsUpTo(Leaves \cup NestedComposites \cup TwiceNestedComposites,
                                MaxExtractComponents)
    /\ name_arg = ""
    /\ comp_pc = "new"
    /\ self = <<>>
    /\ comp_error = <<>>

InitExtract == ExtractNew /\ SortIdle /\ BuildIdle /\ ForwardIdle /\ ExtractIdle

ExtractNext == Construct \/ Extract

SpecExtract == InitExtract /\ [][ExtractNext]_vars

----------------------------------------------------------------------------
(* Claims about Composite *)

\* the value the caller supplies for a
X == CallerValue("a")

\* C5: for the chain ab: a->b, bc: b->c, cd: c->d given in any order the
\* constructor stores ab, bc, cd, and forward({a: X}) returns exactly
\* {b: f(X), c: g(f(X)), d: h(g(f(X)))}, without the key a.
C5_ChainSortedAndComputed ==
    components \in Perms({ab, bc, cd}) =>
        /\ comp_pc # "raised"
        /\ comp_pc = "constructed" => self.components = <<ab, bc, cd>>
        /\ (fwd_pc \in {"returned", "failed"} /\ DOMAIN caller_before = {"a"}) =>
              /\ fwd_pc = "returned"
              /\ DOMAIN heap[fwd_outputs] = {"b", "c", "d"}
              /\ heap[fwd_outputs]["b"] = <<"ab", "b", <<X>>>>
              /\ heap[fwd_outputs]["c"] = <<"bc", "c", << <<"ab", "b", <<X>>>> >>>>
              /\ heap[fwd_outputs]["d"] =
                    <<"cd", "d", << <<"bc", "c", << <<"ab", "b", <<X>>>> >>>> >>>>

C5_Witness ==
    /\ components = <<cd, bc, ab>>
    /\ fwd_pc = "returned"
    /\ DOMAIN caller_before = {"a"}

\* C7: forward never modifies the caller's mapping: from the call on, whether
\* forward returns or a component fails, the caller's mapping has the keys and
\* values it had, though the outputs are merged into the working mapping; the
\* returned mapping is another object than the caller's.
C7_CallerMappingUntouched ==
    fwd_pc \in {"loop", "returned", "failed"} =>
        /\ heap[fwd_inputs] = caller_before
        /\ fwd_outputs # fwd_inputs

C7_Witness ==
    /\ fwd_pc = "returned"
    /\ caller_before # <<>>
    /\ heap[cumulative_inputs] # caller_before
    /\ \E n \in DOMAIN caller_before : heap[cumulative_inputs][n] # caller_before[n]

\* each stored component is invoked once, in the stored order
InvokedInOrder ==
    /\ \A k \in 1..Len(invoked) : invoked[k].piece = k - 1
    /\ fwd_pc = "returned" => Len(invoked) = Len(self.components)

\* every declared input of an invoked component that another component of
\* the composite produces is in the mapping it received
ProducedInputsPresent ==
    \A k \in 1..Len(invoked) :
        \A n \in Range(self.components[k].inputs) :
            (\E j \in 1..Len(self.components) :
                j # k /\ n \in Range(self.components[j].outputs))
            => n \in DOMAIN invoked[k].received

\* C9 as stated: each stored component is invoked exactly once, in the stored
\* order, and the mapping it receives contains every caller-supplied entry
\* and every output returned by the components before it; hence every
\* declared input produced by another component is present.
C9_ReceivesCallerEntriesAndEarlierOutputs ==
    /\ InvokedInOrder
    /\ \A k \in 1..Len(invoked) :
          /\ \A n \in DOMAIN caller_before :
                /\ n \in DOMAIN invoked[k].received
                /\ invoked[k].received[n] = caller_before[n]
          /\ \A j \in 1..(k - 1) : \A n \in DOMAIN invoked[j].returned :
                /\ n \in DOMAIN invoked[k].received
                /\ invoked[k].received[n] = invoked[j].returned[n]
    /\ ProducedInputsPresent

\* C9 amended: each stored component is invoked exactly once, in the stored
\* order, and the mapping it receives has exactly the names supplied by the
\* caller or returned by a component before it, each with the value of the
\* last earlier component that returned it, or else the caller's value (a
\* caller-supplied entry is replaced once a component returns its name);
\* hence every declared input produced by another component is present.
C9_ReceivesLatestValues ==
    /\ InvokedInOrder
    /\ \A k \in 1..Len(invoked) :
          LET earlier(n) == {j \in 1..(k - 1) : n \in DOMAIN invoked[j].returned}
          IN  /\ DOMAIN invoked[k].received =
                    DOMAIN caller_before
                    \cup UNION {DOMAIN invoked[j].returned : j \in 1..(k - 1)}
              /\ \A n \in DOMAIN invoked[k].received :
                    invoked[k].received[n] =
                        IF earlier(n) = {} THEN caller_before[n]
                        ELSE invoked[CHOOSE j \in earlier(n) :
                                        \A i \in earlier(n) : i <= j].returned[n]
    /\ ProducedInputsPresent

C9_Witness ==
    /\ fwd_pc = "returned"
    /\ Len(invoked) = 3
    /\ \E n \in DOMAIN caller_before : \E j \in 1..2 : n \in DOMAIN invoked[j].returned
    /\ \E c \in Range(self.components) : c.cls = "Composite"

\* what the constructor does when building or sorting fails, apart from the
\* names: it raises the composite-scoped error of the same kind, makes no
\* Composite, and the error carries the composite's name, the indices of the
\* underlying error and its redefined output
ErrorMatchesUnderlying ==
    LET built == build_dependency_graph(ComponentIOs(components))
        sorted == topological_sort(built.graph, GraphKeyOrder(Len(components)))
        cyclic == ~built.raised /\ sorted.raised
    IN  comp_pc \in {"constructed", "raised"} =>
            /\ (comp_pc = "raised") <=> (built.raised \/ cyclic)
            /\ comp_pc = "raised" =>
                  /\ self = <<>>
                  /\ comp_error.kind = IF built.raised THEN "OutputRedefinitionError"
                                       ELSE "CyclicDependencyError"
                  /\ comp_error.composite_name =
                        (IF name_arg = "" THEN "Composite" ELSE name_arg)
                  /\ Len(comp_error.indices) =
                        Cardinality(IF built.raised THEN built.indices ELSE sorted.indices)
                  /\ Range(comp_error.indices) =
                        (IF built.raised THEN built.indices ELSE sorted.indices)
                  /\ built.raised => comp_error.redefined_output = built.redefined_output
                  /\ Len(comp_error.names) = Len(comp_error.indices)

\* C10: when building or sorting fails in the constructor it raises the
\* composite-scoped error of the same kind and makes no Composite; the error
\* carries the composite's name, the indices of the underlying error, its
\* redefined output, and a names list whose k-th entry is the name of the
\* component at the k-th listed index.
C10_ErrorCarriesComponentNames ==
    /\ ErrorMatchesUnderlying
    /\ comp_pc = "raised" =>
          \A k \in 1..Len(comp_error.names) :
              comp_error.names[k] = components[comp_error.indices[k] + 1].name

\* what the code does instead: the k-th entry is str() of that component
ErrorCarriesComponentStrs ==
    /\ ErrorMatchesUnderlying
    /\ comp_pc = "raised" =>
          \A k \in 1..Len(comp_error.names) :
              comp_error.names[k] = Str(components[comp_error.indices[k] + 1])

----------------------------------------------------------------------------
(* Claims about extract *)

\* the walk of the claim: every Composite expanded in place and never listed
RECURSIVE ExpandedMatching(_, _, _)
ExpandedMatching(comps, k, type) ==
    IF k > Len(comps) THEN <<>>
    ELSE (IF comps[k].cls = "Composite"
          THEN ExpandedMatching(comps[k].components, 1, type)
          ELSE IF IsInstance(comps[k], type) THEN <<comps[k]>> ELSE <<>>)
         \o ExpandedMatching(comps, k + 1, type)

\* C8 as stated: for every type, extract returns the matching components met
\* walking the stored components left to right with every nested Composite
\* expanded in place, and no nested Composite is an element of the result.
C8_ExtractExpandsEveryComposite ==
    component_type # "" =>
        /\ extract_result = ExpandedMatching(self.components, 1, component_type)
        /\ \A k \in 1..Len(extract_result) : extract_result[k].cls # "Composite"

\* C8 amended: for a type no Composite is an instance of, as stated; for a
\* type a Composite is an instance of (Composite, Piece), a nested Composite
\* is itself an element of the result and is not expanded: the result is the
\* stored components that match, in order.
C8_ExtractExpandsUnmatchedComposites ==
    component_type # "" =>
        IF component_type \in {"Composite", "Piece"}
        THEN LET Matches(c) == IsInstance(c, component_type)
             IN  extract_result = SelectSeq(self.components, Matches)
        ELSE /\ extract_result = ExpandedMatching(self.components, 1, component_type)
             /\ \A k \in 1..Len(extract_result) : extract_result[k].cls # "Composite"

C8_Witness ==
    /\ component_type = "Module"
    /\ self.components # components
    /\ \E c \in Range(self.components) :
          /\ c.cls = "Composite"
          /\ \E inner \in Range(c.components) :
                inner.cls = "Composite" /\ Range(inner.components) \cap Range(extract_result) # {}

----------------------------------------------------------------------------
(* Claims about units that consume what they produce *)

\* the unit lists one name among its inputs and among its outputs
ListsSameName(piece) == Range(piece.inputs) \cap Range(piece.outputs) # {}

\* a Composite one of whose components produces a name that one of its
\* components consumes
HasInternalPair(piece) ==
    /\ piece.cls = "Composite"
    /\ \E j, k \in 1..Len(piece.components) :
          Range(piece.components[j].outputs) \cap Range(piece.components[k].inputs) # {}

\* two distinct components declare one output name
ComponentsShareOutput ==
    \E j, k \in 1..Len(components) :
        j # k /\ Range(components[j].outputs) \cap Range(components[k].outputs) # {}

\* what C11 says of the dependency graph and of the nested Composites, the
\* kind of the failure left aside: a unit listing one name on both sides is
\* its own dependency in every graph that is built; a Composite with an
\* internal producer-consumer pair is such a unit and one without is not,
\* and the latter, alone in another Composite, constructs
SelfDependence ==
    LET built == build_dependency_graph(ComponentIOs(components))
    IN  /\ \A k \in 1..Len(components) :
              /\ (ListsSameName(components[k]) /\ ~built.raised) =>
                     (k - 1) \in built.graph[k - 1]
              /\ components[k].cls = "Composite" =>
                     (HasInternalPair(components[k]) <=> ListsSameName(components[k]))
        /\ (/\ comp_pc # "new"
            /\ Len(components) = 1
            /\ components[1].cls = "Composite"
            /\ ~HasInternalPair(components[1])) => comp_pc = "constructed"

\* C11 as stated: a unit listing one name among its inputs and its outputs is
\* in its own dependency set, so the construction always fails with
\* CyclicDependencyError listing that unit; every Composite with an internal
\* producer-consumer pair is such a unit, and one without nests without error.
C11_SelfDependentUnitAlwaysCyclic ==
    /\ SelfDependence
    /\ comp_pc # "new" =>
          \A k \in 1..Len(components) :
              ListsSameName(components[k]) =>
                  /\ comp_pc = "raised"
                  /\ comp_error.kind = "CyclicDependencyError"
                  /\ (k - 1) \in Range(comp_error.indices)

\* C11 amended: the construction always fails; it fails with
\* CyclicDependencyError listing that unit when no two components declare
\* the same output, and with OutputRedefinitionError, raised before the
\* sort runs, when two do.
C11_SelfDependentUnitNeverConstructs ==
    /\ SelfDependence
    /\ comp_pc # "new" =>
          \A k \in 1..Len(components) :
              ListsSameName(components[k]) =>
                  /\ comp_pc = "raised"
                  /\ IF ComponentsShareOutput
                     THEN comp_error.kind = "OutputRedefinitionError"
                     ELSE /\ comp_error.kind = "CyclicDependencyError"
                          /\ (k - 1) \in Range(comp_error.indices)

C11_Witness ==
    /\ comp_pc = "raised"
    /\ comp_error.kind = "CyclicDependencyError"
    /\ Len(components) = 2
    /\ HasInternalPair(components[1])
    /\ ~ListsSameName(components[2])
    /\ 0 \in Range(comp_error.indices)

----------------------------------------------------------------------------
(* Termination of topological_sort *)

\* the call is never suspended for ever: a step that can be taken is taken
SpecSortFair == InitSort /\ [][SortNext]_vars /\ WF_vars(SortNext)

NoIndexTwice(s) == \A j, k \in 1..Len(s) : s[j] = s[k] => j = k

\* the step is one pass of the while loop
IsPass == passes' = passes + 1

\* the indices the step appends
AppendedByPass == {sorting'[k] : k \in (Len(sorting) + 1)..Len(sorting')}

\* a pass extends sorting by indices that were not resolved, or leaves it
\* as it is and ends the loop
EveryPassAppendsOrEnds ==
    /\ SubSeq(sorting', 1, Len(sorting)) = sorting
    /\ \/ /\ AppendedByPass # {}
          /\ \A i \in AppendedByPass : ~resolved[i] /\ i \notin Range(sorting)
       \/ /\ sorting' = sorting
          /\ sort_pc' = "after"

\* all passes but the last append, and no index is appended twice
PassesBounded ==
    LET n == Cardinality(DOMAIN dependency_graph)
    IN  /\ NoIndexTwice(sorting)
        /\ Range(sorting) \subseteq DOMAIN dependency_graph
        /\ passes <= Len(sorting) + 1
        /\ Len(sorting) <= n
        /\ passes <= n + 1

\* the call has returned a tuple of length n or raised CyclicDependencyError
SortHasEnded ==
    \/ /\ sort_pc = "returned"
       /\ Len(sort_result) = Cardinality(DOMAIN dependency_graph)
    \/ /\ sort_pc = "raised"
       /\ missing_indices # {}

\* C12: topological_sort terminates on every finite graph with keys 0..n-1:
\* every pass appends at least one index that was not resolved or ends the
\* loop, no index is appended twice, at most n passes append and at most
\* n+1 passes run, and the call ends in a returned tuple of length n or in
\* a CyclicDependencyError.
C12_SortTerminates ==
    /\ [][IsPass => EveryPassAppendsOrEnds]_vars
    /\ []PassesBounded
    /\ <>[]SortHasEnded

C12_Witness ==
    /\ sort_pc = "raised"
    /\ passes >= 3
    /\ Len(sorting) = passes - 1
    /\ missing_indices # {}

====
